---- MODULE Spec2Model ----
(***************************************************************************)
(* Model of app.py, the Flask wrapper of the Haven & Hearth RAG search.    *)
(*                                                                         *)
(* State: the module globals vectorstore and embeddings, the position of   *)
(* every thread inside load_vectorstore_lazy(), and the request that is    *)
(* being answered together with its response.  The retrieval adapter       *)
(* (vectorstore.similarity_search_with_score) and the two constructors     *)
(* (HuggingFaceEmbeddings, Chroma) are external: each is a nondeterministic*)
(* choice over the outcomes it can produce.                                *)
(*                                                                         *)
(* Strings that the code trims are sequences of characters; scores are     *)
(* small naturals (only their order matters to the code).                  *)
(***************************************************************************)
EXTENDS Integers, Sequences, FiniteSets, TLC

VARIABLES vectorstore, embeddings, dirExists, pc, embedLoads, chromaLoads,
          request, adapter, response

vars == <<vectorstore, embeddings, dirExists, pc, embedLoads, chromaLoads,
          request, adapter, response>>

---------------------------------------------------------------------------
(* Bounds of the model *)

MaxChunks == 3
NumSources == 3
MaxScore == 1
MaxFiles == 3
NegFiles == 1
NumThreads == 2
MaxLoads == 2

(* Program constants *)

DefaultTopK == 10
DefaultMaxFiles == 5

None == 0

Threads == 1..NumThreads
MainThreads == {1}

Sources == 1..NumSources
Scores == 0..MaxScore
Contents == {"x"}
Filenames == {"f"}

Min(a, b) == IF a < b THEN a ELSE b
Max(a, b) == IF a > b THEN a ELSE b

SeqsUpTo(S, n) == UNION {[1..k -> S] : k \in 0..n}

---------------------------------------------------------------------------
(* What the retrieval adapter returns *)

(* One (doc, score) pair: doc.page_content, doc.metadata, score *)
Chunk == [source : Sources, filename : Filenames, content : Contents, score : Scores]

RetrievalMessages == {"index corrupt"}

NotCalled == [called |-> FALSE, raised |-> FALSE, message |-> "", chunks |-> <<>>]

Returned(chunks) == [called |-> TRUE, raised |-> FALSE, message |-> "", chunks |-> chunks]

Raised(m) == [called |-> TRUE, raised |-> TRUE, message |-> m, chunks |-> <<>>]

(* similarity_search_with_score(query, k): at most k pairs for a positive k, *)
(* in whatever order the store produces them, or an exception.  What the     *)
(* store does with a non-positive k is not decided by app.py: any outcome.   *)
AdapterOutcomes(k) ==
    LET n == IF k > 0 THEN Min(k, MaxChunks) ELSE MaxChunks
    IN  {Returned(s) : s \in SeqsUpTo(Chunk, n)} \cup {Raised(m) : m \in RetrievalMessages}

---------------------------------------------------------------------------
(* The request body *)

(* str.strip(): drop leading and trailing whitespace *)
IsSpace(c) == c = " "

RECURSIVE LStrip(_)
LStrip(s) == IF s # <<>> /\ IsSpace(Head(s)) THEN LStrip(Tail(s)) ELSE s

RECURSIVE RStrip(_)
RStrip(s) ==
    IF s # <<>> /\ IsSpace(s[Len(s)]) THEN RStrip(SubSeq(s, 1, Len(s) - 1)) ELSE s

(* A query taken as sent, untrimmed *)
StripNothing(s) == s

Strip(s) == RStrip(LStrip(s))

QueryStrings == {<<>>, <<" ">>, <<" ", " ">>, <<" ", "a", " ">>}

(* A JSON object with optional keys query and max_files *)
SearchRequests ==
    [kind : {"search"}, hasQuery : {TRUE}, query : QueryStrings,
     hasMaxFiles : {TRUE}, max_files : (0 - NegFiles)..MaxFiles]
    \cup [kind : {"search"}, hasQuery : {TRUE}, query : QueryStrings,
          hasMaxFiles : {FALSE}, max_files : {0}]
    \cup [kind : {"search"}, hasQuery : {FALSE}, query : {<<>>},
          hasMaxFiles : {FALSE}, max_files : {0}]

(* data.get('top_k', 10): what the request can ask for *)
TopKInputs == {1, DefaultTopK}

HealthRequest ==
    [kind |-> "health", hasQuery |-> FALSE, query |-> <<>>,
     hasMaxFiles |-> FALSE, max_files |-> 0]

NoRequest ==
    [kind |-> "none", hasQuery |-> FALSE, query |-> <<>>,
     hasMaxFiles |-> FALSE, max_files |-> 0]

(* data.get('query', '').strip() *)
QueryOf(data) == Strip(IF data.hasQuery THEN data.query ELSE <<>>)

(* data.get('max_files', 5) *)
MaxFilesOf(data) == IF data.hasMaxFiles THEN data.max_files ELSE DefaultMaxFiles

---------------------------------------------------------------------------
(* Responses *)

NoResponse == [status |-> 0, body |-> [error |-> "none"]]

ErrorResponse(status, message) == [status |-> status, body |-> [error |-> message]]

(* An exception answered as an empty success *)
SwallowedResponse(message) ==
    [status |-> 200, body |-> [query |-> <<>>, results |-> <<>>, count |-> 0]]

(* The except clause of search(): any exception becomes a 500 with str(e) *)
ExceptionResponse(message) == ErrorResponse(500, message)

---------------------------------------------------------------------------
(* Grouping, ordering and truncation, as search() does them *)

(* float(score) of the number the store returns keeps its value *)
Float(score) == score

NewGroup(c) ==
    [source |-> c.source, filename |-> c.filename, chunks |-> <<>>,
     best_score |-> c.score]

ChunkEntry(c) == [content |-> c.content, score |-> Float(c.score)]

(* A lookup that never finds the key *)
GroupIndexNever(grouped, source) == 0

(* grouped is a dict: insertion ordered, one entry per key.  Its model is   *)
(* the sequence of its values in insertion order; GroupIndex is the lookup  *)
(* `source in grouped`, 0 when the key is absent.                           *)
GroupIndex(grouped, source) ==
    IF \E i \in 1..Len(grouped) : grouped[i].source = source
    THEN CHOOSE i \in 1..Len(grouped) : grouped[i].source = source
    ELSE 0

RECURSIVE GroupFrom(_, _)
GroupFrom(grouped, rest) ==
    IF rest = <<>> THEN grouped
    ELSE LET c == Head(rest)
             found == GroupIndex(grouped, c.source)
             created == IF found = 0 THEN Append(grouped, NewGroup(c)) ELSE grouped
             at == IF found = 0 THEN Len(created) ELSE found
             appended == [created EXCEPT ![at].chunks = Append(@, ChunkEntry(c))]
         IN  GroupFrom(appended, Tail(rest))

GroupBySource(results) == GroupFrom(<<>>, results)

(* An insertion that puts g before the elements of equal key *)
InsertUnstable(sorted, g) ==
    LET before == Cardinality({i \in 1..Len(sorted) : sorted[i].best_score < g.best_score})
    IN  SubSeq(sorted, 1, before) \o <<g>> \o SubSeq(sorted, before + 1, Len(sorted))

(* sorted(..., key=best_score): a stable sort.  InsertStable puts g after   *)
(* every element whose key is not greater than g's.                        *)
InsertStable(sorted, g) ==
    LET before == Cardinality({i \in 1..Len(sorted) : sorted[i].best_score <= g.best_score})
    IN  SubSeq(sorted, 1, before) \o <<g>> \o SubSeq(sorted, before + 1, Len(sorted))

RECURSIVE SortFrom(_, _)
SortFrom(sorted, rest) ==
    IF rest = <<>> THEN sorted ELSE SortFrom(InsertStable(sorted, Head(rest)), Tail(rest))

SortedByBestScore(groups) == SortFrom(<<>>, groups)

(* The whole list, max_files ignored *)
SliceNoLimit(s, n) == s

(* seq[:n] of Python: a negative n counts from the end *)
Slice(s, n) ==
    LET stop == IF n < 0 THEN Max(Len(s) + n, 0) ELSE Min(n, Len(s))
    IN  SubSeq(s, 1, stop)

---------------------------------------------------------------------------
(* search() *)

(* A handler without the test of the global *)
NotInitializedNever(vs) == FALSE

(* `if not vectorstore` *)
NotInitialized(vs) == vs = None

(* The part of search() before the adapter call: the response of an early  *)
(* return, or NoResponse when the handler goes on to the adapter.  Calling *)
(* similarity_search_with_score on None is an AttributeError, caught by    *)
(* the except clause before any adapter is reached.                        *)
EarlyReturn(vs, data) ==
    IF NotInitialized(vs) THEN ErrorResponse(500, "Vector store not initialized")
    ELSE IF QueryOf(data) = <<>> THEN ErrorResponse(400, "Query cannot be empty")
    ELSE IF vs = None
         THEN ExceptionResponse("'NoneType' object has no attribute 'similarity_search_with_score'")
    ELSE NoResponse

(* The part of search() from the adapter call on *)
Aggregate(data, outcome) ==
    IF outcome.raised THEN ExceptionResponse(outcome.message)
    ELSE LET grouped == GroupBySource(outcome.chunks)
             sorted_results == Slice(SortedByBestScore(grouped), MaxFilesOf(data))
         IN  [status |-> 200,
              body |-> [query |-> QueryOf(data), results |-> sorted_results,
                        count |-> Len(sorted_results)]]

---------------------------------------------------------------------------
(* Initial state: the module has just been imported *)

Init ==
    /\ vectorstore = None
    /\ embeddings = None
    /\ dirExists \in BOOLEAN
    /\ pc = [t \in Threads |-> "idle"]
    /\ embedLoads = 0
    /\ chromaLoads = 0
    /\ request = NoRequest
    /\ adapter = NotCalled
    /\ response = NoResponse

---------------------------------------------------------------------------
(* load_vectorstore_lazy(), one step per statement that reads or writes a  *)
(* global or calls out.  Nothing in app.py calls it; it is a module level  *)
(* function that the host of the module may call from any thread.          *)

(* line 26: if vectorstore is not None: return *)
LoadCheck(t) ==
    /\ pc[t] = "idle"
    /\ pc' = [pc EXCEPT ![t] = IF vectorstore # None THEN "idle" ELSE "exists"]
    /\ UNCHANGED <<vectorstore, embeddings, dirExists, embedLoads, chromaLoads,
                   request, adapter, response>>

(* line 29: if not os.path.exists(CHROMA_DIR): raise *)
LoadExists(t) ==
    /\ pc[t] = "exists"
    /\ pc' = [pc EXCEPT ![t] = IF dirExists THEN "embed" ELSE "idle"]
    /\ UNCHANGED <<vectorstore, embeddings, dirExists, embedLoads, chromaLoads,
                   request, adapter, response>>

(* lines 34-37: embeddings = HuggingFaceEmbeddings(...), or it raises *)
LoadEmbeddings(t) ==
    /\ pc[t] = "embed"
    /\ \/ /\ embedLoads < MaxLoads
          /\ embedLoads' = embedLoads + 1
          /\ embeddings' = embedLoads + 1
          /\ pc' = [pc EXCEPT ![t] = "chroma"]
       \/ /\ pc' = [pc EXCEPT ![t] = "idle"]
          /\ UNCHANGED <<embeddings, embedLoads>>
    /\ UNCHANGED <<vectorstore, dirExists, chromaLoads,
                   request, adapter, response>>

(* lines 40-43: vectorstore = Chroma(...), or it raises *)
LoadChroma(t) ==
    /\ pc[t] = "chroma"
    /\ \/ /\ chromaLoads < MaxLoads
          /\ chromaLoads' = chromaLoads + 1
          /\ vectorstore' = chromaLoads + 1
       \/ UNCHANGED <<vectorstore, chromaLoads>>
    /\ pc' = [pc EXCEPT ![t] = "idle"]
    /\ UNCHANGED <<embeddings, dirExists, embedLoads,
                   request, adapter, response>>

(* POST /api/search, the whole handler: either it returns before the      *)
(* adapter call, or it calls the adapter with the request's top_k and      *)
(* answers from what the adapter does.                                     *)
Search ==
    /\ response = NoResponse
    /\ \/ \E data \in SearchRequests :
             /\ EarlyReturn(vectorstore, data) # NoResponse
             /\ request' = data
             /\ response' = EarlyReturn(vectorstore, data)
             /\ adapter' = NotCalled
       \/ \E top_k \in TopKInputs : \E outcome \in AdapterOutcomes(top_k) :
             \E data \in SearchRequests :
                 /\ EarlyReturn(vectorstore, data) = NoResponse
                 /\ request' = data
                 /\ response' = Aggregate(data, outcome)
                 /\ adapter' = outcome
    /\ UNCHANGED <<vectorstore, embeddings, dirExists, pc, embedLoads, chromaLoads>>

(* GET /api/health *)
Health ==
    /\ response = NoResponse
    /\ request' = HealthRequest
    /\ response' = [status |-> 200,
                    body |-> [status |-> "ok", vectorstore_loaded |-> vectorstore # None]]
    /\ UNCHANGED <<vectorstore, embeddings, dirExists, pc, embedLoads, chromaLoads,
                   adapter>>

(* The server sends the response and is ready for the next request; the    *)
(* request's locals (data, results, grouped) are gone.                     *)
Deliver ==
    /\ response # NoResponse
    /\ response' = NoResponse
    /\ request' = NoRequest
    /\ adapter' = NotCalled
    /\ UNCHANGED <<vectorstore, embeddings, dirExists, pc, embedLoads, chromaLoads>>

(* One caller of load_vectorstore_lazy, requests served one after another *)
Next ==
    \/ \E t \in MainThreads : LoadCheck(t)
    \/ \E t \in MainThreads : LoadExists(t)
    \/ \E t \in MainThreads : LoadEmbeddings(t)
    \/ \E t \in MainThreads : LoadChroma(t)
    \/ Search
    \/ Health
    \/ Deliver

Spec == Init /\ [][Next]_vars

(* The threaded server (app.run(threaded=True)): any thread may be inside  *)
(* load_vectorstore_lazy at any statement.                                 *)
NextThreads ==
    \/ \E t \in Threads : LoadCheck(t)
    \/ \E t \in Threads : LoadExists(t)
    \/ \E t \in Threads : LoadEmbeddings(t)
    \/ \E t \in Threads : LoadChroma(t)
    \/ Health
    \/ Deliver

SpecThreads == Init /\ [][NextThreads]_vars

---------------------------------------------------------------------------
(* Vocabulary of the properties *)

IsSearch200 == request.kind = "search" /\ response.status = 200

SearchStep == response = NoResponse /\ request'.kind = "search"

(* The query as sent is empty once its whitespace is trimmed *)
BlankQuery(data) == \A i \in 1..Len(data.query) : data.query[i] = " "

DistinctSources(raw) == {raw[k].source : k \in 1..Len(raw)}

FirstSeen(raw, source) ==
    CHOOSE k \in 1..Len(raw) :
        raw[k].source = source /\ \A m \in 1..(k - 1) : raw[m].source # source

ChunksOfSource(raw, source) ==
    LET own == SelectSeq(raw, LAMBDA c : c.source = source)
    IN  [k \in 1..Len(own) |-> [content |-> own[k].content, score |-> own[k].score]]

---------------------------------------------------------------------------
(* C1: in every 200 response of search(), every group's best_score is the  *)
(* minimum score over that group's own chunks, whatever the order of the   *)
(* scores in the raw sequence.                                             *)
C1_BestScoreIsMinimum ==
    IsSearch200 =>
        \A i \in 1..Len(response.body.results) :
            LET g == response.body.results[i]
            IN  /\ \A j \in 1..Len(g.chunks) : g.best_score <= g.chunks[j].score
                /\ \E j \in 1..Len(g.chunks) : g.best_score = g.chunks[j].score

(* C2: in every 200 response of search(), results is ascending by          *)
(* best_score, and groups of equal best_score are in the order in which    *)
(* their source was first met in the raw sequence.                         *)
C2_SortedStable ==
    IsSearch200 =>
        LET res == response.body.results
        IN  \A i, j \in 1..Len(res) :
                i < j =>
                    /\ res[i].best_score <= res[j].best_score
                    /\ res[i].best_score = res[j].best_score =>
                           FirstSeen(adapter.chunks, res[i].source)
                               < FirstSeen(adapter.chunks, res[j].source)

(* A response with a tie between two groups and with a group that was met  *)
(* later in the raw sequence placed before one met earlier.                *)
C2_Witness ==
    /\ IsSearch200
    /\ LET res == response.body.results
       IN  /\ \E i, j \in 1..Len(res) :
                  i < j /\ res[i].best_score = res[j].best_score
           /\ \E i, j \in 1..Len(res) :
                  /\ i < j
                  /\ FirstSeen(adapter.chunks, res[i].source)
                         > FirstSeen(adapter.chunks, res[j].source)

(* C3: for max_files >= 0 a 200 response of search() has exactly           *)
(* min(number of distinct sources, max_files) groups and count is the      *)
(* length of results; max_files = 0 gives a 200 with no results.           *)
C3_TruncationCount ==
    (IsSearch200 /\ MaxFilesOf(request) >= 0) =>
        /\ Len(response.body.results)
               = Min(Cardinality(DistinctSources(adapter.chunks)), MaxFilesOf(request))
        /\ response.body.count = Len(response.body.results)

(* max_files = 0 on a raw sequence of at least two sources: 200, no results *)
C3_Witness ==
    /\ IsSearch200
    /\ request.hasMaxFiles /\ request.max_files = 0
    /\ Cardinality(DistinctSources(adapter.chunks)) >= 2
    /\ response.body.results = <<>>
    /\ response.body.count = 0

(* C4: search() builds exactly one group per distinct source of the raw    *)
(* sequence, and every group holds exactly the chunks of its source, in    *)
(* arrival order.                                                          *)
C4_GroupingExact ==
    IsSearch200 =>
        LET raw == adapter.chunks
            grouped == GroupBySource(raw)
            res == response.body.results
        IN  /\ Len(grouped) = Cardinality(DistinctSources(raw))
            /\ {grouped[i].source : i \in 1..Len(grouped)} = DistinctSources(raw)
            /\ \A i \in 1..Len(grouped) :
                   grouped[i].chunks = ChunksOfSource(raw, grouped[i].source)
            /\ \A i \in 1..Len(res) :
                   /\ res[i].source \in DistinctSources(raw)
                   /\ res[i].chunks = ChunksOfSource(raw, res[i].source)
            /\ \A i, j \in 1..Len(res) : res[i].source = res[j].source => i = j

(* A returned group of two chunks that arrived with a chunk of another     *)
(* source between them.                                                    *)
C4_Witness ==
    /\ IsSearch200
    /\ LET raw == adapter.chunks
       IN  /\ Len(raw) = 3
           /\ raw[1].source = raw[3].source
           /\ raw[2].source # raw[1].source
           /\ raw[1].score # raw[3].score
           /\ \E i \in 1..Len(response.body.results) :
                  /\ response.body.results[i].source = raw[1].source
                  /\ Len(response.body.results[i].chunks) = 2

(* C5 as claimed: a search whose query is blank is answered 400 'Query     *)
(* cannot be empty' whether or not the index is loaded, and the adapter is *)
(* not called.                                                             *)
C5_BlankQueryAlways400 ==
    (request.kind = "search" /\ BlankQuery(request)) =>
        /\ response = [status |-> 400, body |-> [error |-> "Query cannot be empty"]]
        /\ ~adapter.called

(* C5 as amended: a search whose query is blank is answered 400 'Query     *)
(* cannot be empty' when the index is loaded and 500 'Vector store not     *)
(* initialized' when it is not; the adapter is called in neither case.     *)
C5_BlankQueryAnswer ==
    [][(SearchStep /\ BlankQuery(request')) =>
          /\ ~adapter'.called
          /\ response' =
                 IF vectorstore # None
                 THEN [status |-> 400, body |-> [error |-> "Query cannot be empty"]]
                 ELSE [status |-> 500, body |-> [error |-> "Vector store not initialized"]]
      ]_vars

(* A whitespace-only query answered 400 by a loaded index *)
C5_Witness ==
    /\ request.kind = "search"
    /\ request.query = <<" ", " ">>
    /\ vectorstore # None
    /\ response.status = 400

(* C6: when the adapter call raises with message m the response is a 500   *)
(* whose body is exactly {error: m}: no results, no count, never a 200.    *)
C6_RetrievalErrorPropagated ==
    (adapter.called /\ adapter.raised) =>
        /\ response.status = 500
        /\ DOMAIN response.body = {"error"}
        /\ response.body.error = adapter.message

C6_Witness ==
    /\ request.kind = "search"
    /\ adapter.called /\ adapter.raised
    /\ adapter.message = "index corrupt"
    /\ response.status = 500

(* C7: a 200 response of search() never has more groups than max_files;    *)
(* for a negative max_files that means no group at all (a negative value   *)
(* never produces a non-empty success result).                             *)
C7_ResultsWithinMaxFiles ==
    IsSearch200 =>
        IF MaxFilesOf(request) >= 0
        THEN Len(response.body.results) <= MaxFilesOf(request)
        ELSE response.body.results = <<>>

C9_FirstSearchLoads ==
    (request.kind = "search" /\ response # NoResponse /\ dirExists) => vectorstore # None

(* C10: threads calling load_vectorstore_lazy concurrently construct the   *)
(* embedding model and the Chroma store at most once in total.  A retry    *)
(* after a Chroma constructor that raised is not counted: the condition    *)
(* says that every embedding model built so far either has its store or is *)
(* still on its way to it.                                                 *)
C10_LoadedAtMostOnce ==
    (embedLoads = chromaLoads + Cardinality({t \in Threads : pc[t] = "chroma"})) =>
        (embedLoads <= 1 /\ chromaLoads <= 1)

====
